---- MODULE Spec2Model ----
(***************************************************************************)
(* Pixel-based CTE correction (acstools PixCteCorr.py).                    *)
(*                                                                         *)
(* Real numbers are exact rationals <<n, d>> with d > 0 in lowest terms,   *)
(* so every statement below is one of exact arithmetic; floating-point     *)
(* rounding is outside the model.  numpy arrays are sequences (1-based):   *)
(* index i of the source is index i+1 here.                                *)
(***************************************************************************)
EXTENDS Integers, Sequences, FiniteSets, TLC

VARIABLES
    pc,          \* the function about to run, "return" or "raise"
    raised,      \* the Python exception that ended the run, "" if none
    psi_node,    \* PSI node offsets read from PCTEFILE
    chg_leak,    \* PSI node values: one row per node, one entry per column
    chg_leak_kt, \* dense PSI table returned by _InterpolatePsi
    dtde_l,      \* PHI node values read from PCTEFILE
    cte_frac,    \* time scalar of the exposure
    dtde_q,      \* PHI at every charge level, scaled by cte_frac
    ctde_q,      \* running sum of dtde_q
    q_pix_array, \* charge level -> trap count
    pix_q_array, \* trap count -> charge level, 0 where unset
    _YCTE_QMAX,  \* module-level maximum trap count
    chg_leak_tq, \* normalised release table: chg_leak_tq[q][t] is column q, row t
    chg_open_tq, \* its cumulative form, stored the same way
    data_e,      \* _DecomposeRN: input array in electrons, data_e[row][column]
    model,       \* _DecomposeRN: noise model 0, 1 or 100
    nitrn,       \* _DecomposeRN: iteration count of model 1
    readNoise,   \* _DecomposeRN: read noise of model 100
    doNsCor,     \* _DecomposeRN: correction flags of model 1
    nit,         \* _DecomposeRN: iterations of model 1 done so far
    sigArr,      \* _DecomposeRN: signal array
    nseArr,      \* _DecomposeRN: noise array
    infiles,     \* CteCorr: exposures still to correct
    expstart,    \* EXPSTART of the exposure (MJD)
    detector,    \* DETECTOR of the exposure
    inSci,       \* SCI quadrants of the input file, by amplifier
    inErr,       \* ERR quadrants of the input file, by amplifier
    ampList,     \* YCte: amplifiers of the exposure, in processing order
    gain,        \* YCte: gain by amplifier
    noise,       \* YCte: noise model asked for
    intermediateFiles, \* YCte: whether intermediate files are asked for
    rn2_nit,     \* YCte: RN2_NIT of the calibration file
    qmaxAtCall,  \* YCte: value of _YCTE_QMAX when YCte was called
    sciQuadData, \* YCte: SCI quadrants of the output file, by amplifier
    errQuadData, \* YCte: ERR quadrants of the output file, by amplifier
    ampIdx,      \* YCte: place of the amp loop in ampList
    sciAmpSig,   \* amp loop: noiseless signal handed to the kernel, in DN
    sciAmpNse,   \* amp loop: noise of the quadrant, in electrons
    sciAmpCor,   \* amp loop: array the kernel wrote
    retCode,     \* amp loop: status the kernel returned
    kernelCalls, \* arguments of the kernel calls of this exposure
    printed      \* amplifiers reported as failed in this exposure

psiVars == <<psi_node, chg_leak, chg_leak_kt>>
phiVars == <<dtde_l, cte_frac, dtde_q, ctde_q, q_pix_array, pix_q_array>>
trackVars == <<chg_leak_tq, chg_open_tq>>
rnVars == <<data_e, model, nitrn, readNoise, doNsCor, nit, sigArr, nseArr>>
fileVars == <<infiles, expstart, detector, inSci, inErr>>
ycteVars == <<ampList, gain, noise, intermediateFiles, rn2_nit, qmaxAtCall,
              sciQuadData, errQuadData, ampIdx>>
ampVars == <<sciAmpSig, sciAmpNse, sciAmpCor, retCode, kernelCalls, printed>>
vars == <<pc, raised, psiVars, phiVars, _YCTE_QMAX, trackVars, rnVars,
          fileVars, ycteVars, ampVars>>

----------------------------------------------------------------------------
(* Exact rational arithmetic. *)

Abs(i) == IF i < 0 THEN -i ELSE i

RECURSIVE GCD(_, _)
GCD(a, b) == IF b = 0 THEN a ELSE GCD(b, a % b)

Rat(n, d) ==
    LET g == GCD(Abs(n), Abs(d))
        s == IF d < 0 THEN -1 ELSE 1
    IN  <<s * (n \div g), s * (d \div g)>>

R(i) == <<i, 1>>
Zero == R(0)
One == R(1)

RAdd(x, y) ==
    LET g == GCD(x[2], y[2])
    IN  Rat(x[1] * (y[2] \div g) + y[1] * (x[2] \div g), x[2] * (y[2] \div g))

RNeg(x) == <<-x[1], x[2]>>
RSub(x, y) == RAdd(x, RNeg(y))

RMul(x, y) ==
    LET a == Rat(x[1], y[2])
        b == Rat(y[1], x[2])
    IN  <<a[1] * b[1], a[2] * b[2]>>

RLe(x, y) == RSub(x, y)[1] <= 0
RLt(x, y) == RSub(x, y)[1] < 0

\* x / y for y # 0
RDiv(x, y) == RMul(x, Rat(y[2], y[1]))

\* The values a float division by zero produces, as pairs with denominator 0.
NaN == <<0, 0>>
Inf == <<1, 0>>
NegInf == <<-1, 0>>
IsFinite(x) == x[2] # 0

\* numpy float division: x / 0 is nan for x = 0 and +-inf otherwise.
FDiv(x, y) ==
    IF y[1] # 0 THEN RDiv(x, y)
    ELSE IF x[1] = 0 THEN NaN
    ELSE IF x[1] > 0 THEN Inf ELSE NegInf

\* Float addition with nan and +-inf operands.
FAdd(x, y) ==
    IF IsFinite(x) /\ IsFinite(y) THEN RAdd(x, y)
    ELSE IF x = NaN \/ y = NaN THEN NaN
    ELSE IF IsFinite(x) THEN y
    ELSE IF IsFinite(y) THEN x
    ELSE IF x = y THEN x ELSE NaN

\* s[lo] + ... + s[hi].  The terms are added pairwise, by halves, which in
\* exact arithmetic is the sum a left-to-right loop accumulates.
RECURSIVE SumRange(_, _, _)
SumRange(s, lo, hi) ==
    IF lo > hi THEN Zero
    ELSE IF lo = hi THEN s[lo]
    ELSE LET m == (lo + hi) \div 2
         IN  FAdd(SumRange(s, lo, m), SumRange(s, m + 1, hi))

\* The sum of the first n entries of s.
SumSeq(s, n) == SumRange(s, 1, n)

\* The running sums base + s[lo], base + s[lo] + s[lo + 1], ... up to s[hi].
RECURSIVE RunRange(_, _, _, _)
RunRange(s, lo, hi, base) ==
    IF lo = hi THEN <<FAdd(base, s[lo])>>
    ELSE LET m == (lo + hi) \div 2
             left == RunRange(s, lo, m, base)
         IN  left \o RunRange(s, m + 1, hi, left[Len(left)])

\* sumt = 0.0; for i: sumt += s[i]; out[i] = sumt
RunSum(s) == IF Len(s) = 0 THEN <<>> ELSE RunRange(s, 1, Len(s), Zero)

----------------------------------------------------------------------------
(* Bounds and input sets of the PSI calibration. *)

\* Largest number of PSI nodes in a calibration table.
MaxNodes == 3

\* Node offsets a calibration table may name.
PsiOffsets == {1, 3, 100}

\* Rows of PSI node values, one entry per charge column.
LeakRows == {<<R(0), R(0), R(0), R(0)>>,
             <<R(1), R(2), R(3), R(4)>>,
             <<R(4), R(2), R(0), R(1)>>}

SeqsUpTo(S, n) == UNION {[1..m -> S] : m \in 1..n}

----------------------------------------------------------------------------
(* _InterpolatePsi *)

max_node == 100

\* numpy.zeros((rows, cols))
ZeroTable(rows, cols) == [t \in 1..rows |-> [k \in 1..cols |-> Zero]]

\* One pass of the n1 loop: rows psi1..psi2-1 (offsets) of every column are
\* overwritten with the interpolation between nodes n1 and n2; an empty
\* range(psi1, psi2) overwrites nothing.
PsiSegment(kt, leak, node, n1) ==
    LET n2 == n1 + 1
        psi1 == node[n1]
        psi2 == node[n2]
    IN  [t \in 1..Len(kt) |->
            IF psi1 <= t /\ t < psi2
            THEN LET ftt == Rat(t - psi1, psi2 - psi1)
                 IN  [k \in 1..Len(kt[t]) |->
                        RAdd(leak[n1][k],
                             RMul(ftt, RSub(leak[n2][k], leak[n1][k])))]
            ELSE kt[t]]

RECURSIVE PsiLoop(_, _, _, _)
PsiLoop(kt, leak, node, n1) ==
    IF n1 >= Len(leak) THEN kt
    ELSE PsiLoop(PsiSegment(kt, leak, node, n1), leak, node, n1 + 1)

\* chg_leak_kt[-1,:] = chg_leak[-1,:]
PsiLastRow(kt, leak) == [kt EXCEPT ![Len(kt)] = leak[Len(leak)]]

\* The table _InterpolatePsi returns.
_InterpolatePsi(leak, node) ==
    PsiLastRow(PsiLoop(ZeroTable(max_node, Len(leak[1])), leak, node, 1), leak)

\* ttu of the reference implementation: the last tt of range(1, nodes) with
\* tlist[tt] <= t, 1 when there is none.
PsiTtu(node, t) ==
    LET hits == {tt \in 1..(Len(node) - 1) : node[tt] <= t}
    IN  IF hits = {} THEN 1 ELSE CHOOSE tt \in hits : \A o \in hits : o <= tt

\* The table _InterpolatePsi_NOT_USED returns for at least two nodes: every
\* row is taken from the line through nodes ttu and ttu + 1.
_InterpolatePsi_NOT_USED(leak, node) ==
    [t \in 1..max_node |->
        LET ttu == PsiTtu(node, t)
            ftt == Rat(t - node[ttu], node[ttu + 1] - node[ttu])
        IN  [k \in 1..Len(leak[1]) |->
                RAdd(leak[ttu][k],
                     RMul(ftt, RSub(leak[ttu + 1][k], leak[ttu][k])))]]

\* The call (YCte line 247).  No statement of the function raises for a
\* table of at least one node with offsets in 1..max_node.
InterpolatePsi ==
    /\ pc = "_InterpolatePsi"
    /\ pc' = "_InterpolatePhi"
    /\ chg_leak_kt' = _InterpolatePsi(chg_leak, psi_node)
    /\ UNCHANGED <<raised, psi_node, chg_leak, phiVars, _YCTE_QMAX, trackVars, rnVars>>
    /\ UNCHANGED <<fileVars, ycteVars, ampVars>>

----------------------------------------------------------------------------
(* _CalcCteFrac *)

c1 == 52335
c2 == 55105

\* The time scalar cut off at 0 and at 1.
_CalcCteFracClipped(mjd, det) ==
    IF mjd < c1 THEN Zero ELSE IF mjd > c2 THEN One ELSE Rat(mjd - c1, c2 - c1)

_CalcCteFrac(mjd, det) == Rat(mjd - c1, c2 - c1)

\* Keys of the dictionaries c1 and c2.
SupportedDetectors == {"WFC"}

\* The call by itself: c1[detector] is a KeyError for any other detector.
CalcCteFrac ==
    /\ pc = "_CalcCteFrac"
    /\ IF detector \in SupportedDetectors
       THEN /\ pc' = "return"
            /\ cte_frac' = _CalcCteFrac(expstart, detector)
            /\ UNCHANGED raised
       ELSE /\ pc' = "raise"
            /\ raised' = "KeyError"
            /\ UNCHANGED cte_frac
    /\ UNCHANGED <<psiVars, dtde_l, dtde_q, ctde_q, q_pix_array, pix_q_array>>
    /\ UNCHANGED <<_YCTE_QMAX, trackVars, rnVars, fileVars, ycteVars, ampVars>>

\* EXPSTART values: before c1, at c1, between, at c2, after c2.
MjdSet == {50950, 52335, 53720, 55105, 57875}

----------------------------------------------------------------------------
(* _InterpolatePhi *)

\* Initial value of the module-level _YCTE_QMAX.
QMAX0 == 10000

\* Number of charge levels tracked.  The program tracks 49999; the model
\* tracks the first p_max of them.
p_max == 12

\* numpy.log10 in thousandths, on the charge levels the model uses.
Log10Milli(p) ==
    CASE p = 1 -> 0       [] p = 2 -> 301     [] p = 3 -> 477
      [] p = 4 -> 602     [] p = 5 -> 699     [] p = 6 -> 778
      [] p = 7 -> 845     [] p = 8 -> 903     [] p = 9 -> 954
      [] p = 10 -> 1000   [] p = 11 -> 1041   [] p = 12 -> 1079
      [] p = 13 -> 1114   [] p = 14 -> 1146   [] p = 15 -> 1176
      [] p = 16 -> 1204   [] p = 20 -> 1301   [] p = 50 -> 1699
      [] p = 100 -> 2000  [] p = 300 -> 2477  [] p = 1000 -> 3000
      [] p = 2000 -> 3301 [] p = 49999 -> 4699

\* rl = 1.0 + 2.0 * log10(p1), in thousandths
RlMilli(p1) == 1000 + 2 * Log10Milli(p1)
\* ll = rl.astype('int')
Ll(p1) == RlMilli(p1) \div 1000
\* fl = rl - ll
Fl(p1) == Rat(RlMilli(p1) % 1000, 1000)

\* Number of PHI nodes the tracked charge levels need.
NumPhi == Ll(p_max) + 1

\* int(x), astype('int'): truncation towards zero
Trunc(x) == IF x[1] >= 0 THEN x[1] \div x[2] ELSE -((-x[1]) \div x[2])

\* dtde_q: entry p1 is PHI at charge level p1 (source index p1 - 1).
\* dtde_l[kl] and dtde_l[ll] of the source are l[ll] and l[ll + 1] here.
DtdeQ(l, frac) ==
    [p1 \in 1..p_max |->
        LET ll == Ll(p1)
        IN  RMul(RAdd(l[ll], RMul(Fl(p1), RSub(l[ll + 1], l[ll]))), frac)]

\* ctde_q: the running sum of lines 611-616
CtdeQ(dq) == RunSum(dq)

\* The mapping without its clip to a minimum of 1.
QPixArrayUnclipped(cq) == [p \in 1..Len(cq) |-> Trunc(cq[p])]

\* q_pix_array = ctde_q.astype('int').clip(1)
QPixArray(cq) ==
    [p \in 1..Len(cq) |-> IF Trunc(cq[p]) < 1 THEN 1 ELSE Trunc(cq[p])]

\* pix_q_array = zeros(p_max); pix_q_array[q_pix_array - 1] = p1_range:
\* the last charge level written to an entry stays.
PixQArray(qp) ==
    [q \in 1..Len(qp) |->
        LET ps == {p \in 1..Len(qp) : qp[p] = q}
        IN  IF ps = {} THEN 0 ELSE CHOOSE p \in ps : \A o \in ps : o <= p]

\* The total clipped to a minimum of 1, as the mapping is.
QMaxOfClipped(dq) ==
    IF Trunc(SumSeq(dq, Len(dq))) < 1 THEN 1 ELSE Trunc(SumSeq(dq, Len(dq)))

\* The module-level value as it is, were it not assigned (no global
\* statement in _InterpolatePhi).
QMaxOfStale(dq) == _YCTE_QMAX

\* int(dtde_q.sum())
QMaxOf(dq) == Trunc(SumSeq(dq, Len(dq)))

\* The call.  Indexing dtde_l past its end, or pix_q_array past p_max, is an
\* IndexError raised before _YCTE_QMAX is assigned.
InterpolatePhi ==
    /\ pc = "_InterpolatePhi"
    /\ LET dq == DtdeQ(dtde_l, cte_frac)
           cq == CtdeQ(dq)
           qp == QPixArray(cq)
       IN  IF Len(dtde_l) < Ll(p_max) + 1
           THEN /\ pc' = "raise"
                /\ raised' = "IndexError"
                /\ UNCHANGED <<dtde_q, ctde_q, q_pix_array, pix_q_array, _YCTE_QMAX>>
           ELSE IF \E p \in 1..p_max : qp[p] > p_max
           THEN /\ pc' = "raise"
                /\ raised' = "IndexError"
                /\ dtde_q' = dq
                /\ ctde_q' = cq
                /\ q_pix_array' = qp
                /\ UNCHANGED <<pix_q_array, _YCTE_QMAX>>
           ELSE /\ pc' = "DataByAmp"
                /\ dtde_q' = dq
                /\ ctde_q' = cq
                /\ q_pix_array' = qp
                /\ pix_q_array' = PixQArray(qp)
                /\ _YCTE_QMAX' = QMaxOf(dq)
                /\ UNCHANGED raised
    /\ UNCHANGED <<psiVars, dtde_l, cte_frac, trackVars, rnVars>>
    /\ UNCHANGED <<fileVars, ycteVars, ampVars>>

----------------------------------------------------------------------------
(* _TrackChargeTrap *)

lp_min == 1000
lp_max == 4000

\* lp = log10(p).clip(lp_min, lp_max), in thousandths; log10(0) is -inf.
LpMilli(p) ==
    IF p = 0 THEN lp_min
    ELSE IF Log10Milli(p) < lp_min THEN lp_min
    ELSE IF Log10Milli(p) > lp_max THEN lp_max
    ELSE Log10Milli(p)

\* Log_Q index k: 1, 0 where lp < 2, 2 where lp >= 3
LogQIndex(lpm) == IF lpm < 2000 THEN 0 ELSE IF lpm >= 3000 THEN 2 ELSE 1

\* Column q before normalisation (line 675): source columns k and k2 = k + 1
\* of chg_leak_kt are entries k + 1 and k + 2 of a row here.
LeakColumn(kt, p) ==
    LET lpm == LpMilli(p)
        k == LogQIndex(lpm)
        flp == Rat(lpm - 1000 * (k + 1), 1000)
    IN  [t \in 1..Len(kt) |->
            RAdd(kt[t][k + 1], RMul(flp, RSub(kt[t][k + 2], kt[t][k + 1])))]

\* chg_leak_tq[:,q] /= chg_leak_tq[:,q].sum()
Normalize(col) ==
    LET sumt == SumSeq(col, Len(col))
    IN  [t \in 1..Len(col) |-> FDiv(col[t], sumt)]

\* The cumulative sum of a column (lines 683-687).
OpenColumn(col) == RunSum(col)

\* chg_leak_tq, one column per trap count 1..qmax
ChgLeakTq(pq, kt, qmax) ==
    [q \in 1..qmax |-> Normalize(LeakColumn(kt, pq[q]))]

\* The call (YCte line 284).  numpy.zeros with a negative dimension is a
\* ValueError, and so is assigning the Len(pq) interpolated values of a row
\* to its qmax columns when qmax exceeds Len(pq).  The log file, when asked
\* for, is written from the finished tables and changes nothing here.
TrackChargeTrap ==
    /\ pc = "_TrackChargeTrap"
    /\ IF _YCTE_QMAX < 0 \/ _YCTE_QMAX > Len(pix_q_array)
       THEN /\ pc' = "raise"
            /\ raised' = "ValueError"
            /\ UNCHANGED trackVars
       ELSE LET tq == ChgLeakTq(pix_q_array, chg_leak_kt, _YCTE_QMAX)
            IN  /\ pc' = "AmpLoop"
                /\ chg_leak_tq' = tq
                /\ chg_open_tq' = [q \in 1.._YCTE_QMAX |-> OpenColumn(tq[q])]
                /\ UNCHANGED raised
    /\ UNCHANGED <<psiVars, phiVars, _YCTE_QMAX, rnVars>>
    /\ UNCHANGED <<fileVars, ycteVars, ampVars>>

----------------------------------------------------------------------------
(* _DecomposeRN *)

\* Correction thresholds of model 1, in electrons.
nseLo == -20
nseHi == 100

NRows(a) == Len(a)
NCols(a) == Len(a[1])

\* numpy.zeros(data_e.shape)
ZerosLike(a) == [r \in 1..NRows(a) |-> [c \in 1..NCols(a) |-> Zero]]

\* a - b, element by element
ArrSub(a, b) ==
    [r \in 1..NRows(a) |-> [c \in 1..NCols(a) |-> RSub(a[r][c], b[r][c])]]

\* The pixels numpy.where selects at line 792: outside the band, in a row
\* whose flag is still 1, which leaves out the first and the last row.
OutOfBandIdx(data) ==
    {rc \in (2..(NRows(data) - 1)) \X (1..NCols(data)) :
        \/ RLt(data[rc[1]][rc[2]], R(nseLo))
        \/ RLt(R(nseHi), data[rc[1]][rc[2]])}

\* doNsCor after lines 787-797.
DoNsCor(data) ==
    LET idx == OutOfBandIdx(data)
    IN  [r \in 1..NRows(data) |-> [c \in 1..NCols(data) |->
            IF r = 1 \/ r = NRows(data) THEN 0
            ELSE IF <<r, c>> \in idx THEN 0
            ELSE IF <<r + 1, c>> \in idx THEN 0
            ELSE IF <<r - 1, c>> \in idx THEN 0
            ELSE 1]]

\* The residual as it is, not clipped.
ClipNone(x) == x

\* numpy.clip(x, -1, 1)
Clip1(x) == IF RLt(x, R(-1)) THEN R(-1) ELSE IF RLt(One, x) THEN One ELSE x

\* The pass with rowCen taken one row too low (sigArr[:-2]): the residual of
\* row r + 1 is subtracted from row r.
RnIterateShifted(sig, flg) ==
    [r \in 1..NRows(sig) |-> [c \in 1..NCols(sig) |->
        IF r < NRows(sig) /\ flg[r + 1][c] = 1
        THEN LET bar == RMul(Rat(1, 2), RAdd(sig[r][c], sig[r + 2][c]))
             IN  RSub(sig[r][c], Clip1(RSub(sig[r + 1][c], bar)))
        ELSE sig[r][c]]]

\* One pass of the nit loop (lines 808-812): every residual is taken from
\* the signal as it is when the pass starts, then all are subtracted.
RnIterate(sig, flg) ==
    [r \in 1..NRows(sig) |-> [c \in 1..NCols(sig) |->
        IF flg[r][c] = 1
        THEN LET bar == RMul(Rat(1, 2), RAdd(sig[r - 1][c], sig[r + 1][c]))
             IN  RSub(sig[r][c], Clip1(RSub(sig[r][c], bar)))
        ELSE sig[r][c]]]

RECURSIVE RnIterateN(_, _, _)
RnIterateN(sig, flg, n) ==
    IF n <= 0 THEN sig ELSE RnIterateN(RnIterate(sig, flg), flg, n - 1)

\* Length of the Python slice a[start:stop] of a sequence of n entries.
SliceLen(n, start, stop) ==
    LET lo == IF start < 0 THEN (IF n + start < 0 THEN 0 ELSE n + start)
              ELSE (IF start > n THEN n ELSE start)
        hi == IF stop < 0 THEN (IF n + stop < 0 THEN 0 ELSE n + stop)
              ELSE (IF stop > n THEN n ELSE stop)
    IN  IF hi > lo THEN hi - lo ELSE 0

\* Model 100: the three views of lines 827-829 have the same number of rows.
\* When they do not, line 832 cannot be evaluated (ValueError).
Rn100ViewsAgree(n) ==
    /\ SliceLen(n, 1, n - 4) = SliceLen(n, 0, n - 5)
    /\ SliceLen(n, 1, n - 4) = SliceLen(n, 2, n - 3)

\* Model 100, line 832: the initial model of the signal.  Source rows
\* y1..y2-1 = 1..n-5 are rows 2..n-4 here.
Rn100InitialSignal(data) ==
    [r \in 1..NRows(data) |-> [c \in 1..NCols(data) |->
        IF 2 <= r /\ r <= NRows(data) - 4
        THEN RAdd(RAdd(RMul(Rat(333, 1000), data[r - 1][c]),
                       RMul(Rat(334, 1000), data[r][c])),
                  RMul(Rat(333, 1000), data[r + 1][c]))
        ELSE data[r][c]]]

RAbs(x) == <<Abs(x[1]), x[2]>>
RSign(x) == IF x[1] > 0 THEN One ELSE IF x[1] < 0 THEN R(-1) ELSE Zero

\* Model 100, lines 847-852: the noise left after the two thresholds.
Rn100Noise(data, sig0, rn) ==
    LET nseSigLo == RMul(R(2), rn)
        nseSigHi == RMul(R(2), nseSigLo)
    IN  [r \in 1..NRows(data) |-> [c \in 1..NCols(data) |->
            LET n0 == RSub(data[r][c], sig0[r][c])
                a == RAbs(n0)
                n1 == IF RLt(nseSigHi, a) THEN Zero ELSE n0
            IN  IF RLt(nseSigLo, a)
                THEN RMul(RSub(nseSigHi, a), RSign(n1))
                ELSE n1]]

\* Model 100 keeps the initial model as the signal (line 855 left out).
Rn100SignalInitial(data, nse, sig0) == sig0

\* Model 100, line 855: the final model of the signal.
Rn100Signal(data, nse, sig0) == ArrSub(data, nse)

\* <<sigArr, nseArr>> as _DecomposeRN returns them.
_DecomposeRN(data, mdl, nitr, rn) ==
    IF mdl = 1
    THEN LET sig == RnIterateN(data, DoNsCor(data), nitr)
         IN  <<sig, ArrSub(data, sig)>>
    ELSE IF mdl = 100
    THEN LET sig0 == Rn100InitialSignal(data)
             nse == Rn100Noise(data, sig0, rn)
         IN  <<Rn100Signal(data, nse, sig0), nse>>
    ELSE <<data, ZerosLike(data)>>

\* Whether the call raises instead of returning.
DecomposeRNRaises(data, mdl) == mdl = 100 /\ ~Rn100ViewsAgree(NRows(data))

\* Entry of _DecomposeRN: lines 757-758, then model 0 returns, model 100
\* runs lines 817-855 and returns, model 1 sets the flags up (lines 783-804).
DecomposeBegin ==
    /\ pc = "_DecomposeRN"
    /\ nit' = 0
    /\ IF model = 1
       THEN /\ pc' = "nit_loop"
            /\ doNsCor' = DoNsCor(data_e)
            /\ sigArr' = data_e
            /\ nseArr' = ZerosLike(data_e)
            /\ UNCHANGED raised
       ELSE IF DecomposeRNRaises(data_e, model)
       THEN /\ pc' = "raise"
            /\ raised' = "ValueError"
            /\ sigArr' = data_e
            /\ nseArr' = ZerosLike(data_e)
            /\ UNCHANGED doNsCor
       ELSE /\ pc' = "DecomposeReturn"
            /\ sigArr' = _DecomposeRN(data_e, model, nitrn, readNoise)[1]
            /\ nseArr' = _DecomposeRN(data_e, model, nitrn, readNoise)[2]
            /\ UNCHANGED <<raised, doNsCor>>
    /\ UNCHANGED <<psiVars, phiVars, _YCTE_QMAX, trackVars>>
    /\ UNCHANGED <<data_e, model, nitrn, readNoise>>
    /\ UNCHANGED <<fileVars, ycteVars, ampVars>>

\* One iteration of model 1.
DecomposeIterate ==
    /\ pc = "nit_loop"
    /\ nit < nitrn
    /\ sigArr' = RnIterate(sigArr, doNsCor)
    /\ nit' = nit + 1
    /\ UNCHANGED <<pc, raised, psiVars, phiVars, _YCTE_QMAX, trackVars>>
    /\ UNCHANGED <<data_e, model, nitrn, readNoise, doNsCor, nseArr>>
    /\ UNCHANGED <<fileVars, ycteVars, ampVars>>

\* End of the nit loop: line 814 and the return.
DecomposeEnd ==
    /\ pc = "nit_loop"
    /\ nit >= nitrn
    /\ nseArr' = ArrSub(data_e, sigArr)
    /\ pc' = "DecomposeReturn"
    /\ UNCHANGED <<raised, psiVars, phiVars, _YCTE_QMAX, trackVars>>
    /\ UNCHANGED <<data_e, model, nitrn, readNoise, doNsCor, nit, sigArr>>
    /\ UNCHANGED <<fileVars, ycteVars, ampVars>>

----------------------------------------------------------------------------
(* YCte: the quadrant arithmetic *)

\* Amplifier order in which one quadrant is chosen for the detailed log.
ampPriorityOrder == <<"C", "D", "A", "B">>

\* amp in ampList
InList(a, lst) == \E i \in 1..Len(lst) : lst[i] = a

\* The amplifier the amp loop comes to first.
Amp2LogFirstIterated(lst) == IF Len(lst) = 0 THEN "" ELSE lst[1]

\* amp2log: the first amplifier of ampPriorityOrder that ampList holds, ''
\* when it holds none (lines 288-293).
Amp2Log(lst) ==
    LET hits == {i \in 1..Len(ampPriorityOrder) : InList(ampPriorityOrder[i], lst)}
    IN  IF hits = {} THEN ""
        ELSE ampPriorityOrder[CHOOSE i \in hits : \A j \in hits : i <= j]

\* outLog (lines 273-281)
OutLog(inter) == IF inter THEN "rootname_cte_log.txt" ELSE ""

\* rdns[amp] for a noise model other than 100: the dummy 0.0 of line 267.
Rdns(amp) == Zero

\* The binary exponent k that brings n / d to 24 significant bits.
RECURSIVE Float32Exp(_, _, _)
Float32Exp(n, d, k) ==
    IF n * 2^k >= 2^23 * d THEN k ELSE Float32Exp(n, d, k + 1)

\* x.astype(float32) of a value of magnitude below 2^24: the nearest number
\* with 24 significant bits, ties to the even one.  The images are float32
\* (FLT files); float32 to 'float' (lines 301, 338) changes no value.
Float32(x) ==
    IF x[2] = 0 \/ x[1] = 0 THEN x
    ELSE LET n == Abs(x[1])
             d == x[2]
             k == Float32Exp(n, d, 0)
             q == (n * 2^k) \div d
             r == (n * 2^k) % d
             m == IF 2 * r > d \/ (2 * r = d /\ q % 2 = 1) THEN q + 1 ELSE q
         IN  Rat((IF x[1] < 0 THEN -1 ELSE 1) * m, 2^k)

\* sciAmpFin.astype(sciQuadData[amp].dtype)
ArrAsType(a) ==
    [r \in 1..NRows(a) |-> [c \in 1..NCols(a) |-> Float32(a[r][c])]]

\* sciAmpSig /= gain[amp]
ArrDiv(a, g) ==
    [r \in 1..NRows(a) |-> [c \in 1..NCols(a) |-> RDiv(a[r][c], g)]]

\* a + d at every pixel
ArrAddConst(a, d) ==
    [r \in 1..NRows(a) |-> [c \in 1..NCols(a) |-> RAdd(a[r][c], d)]]

\* The corrected signal in electrons, the noise not added back.
SciAmpFinNoNoise(cor, g, nse) ==
    [r \in 1..NRows(cor) |-> [c \in 1..NCols(cor) |-> RMul(cor[r][c], g)]]

\* sciAmpFin = sciAmpCor * gain[amp] + sciAmpNse
SciAmpFin(cor, g, nse) ==
    [r \in 1..NRows(cor) |-> [c \in 1..NCols(cor) |->
        RAdd(RMul(cor[r][c], g), nse[r][c])]]

\* An ERR pixel is <<s, q>>: the value s * sqrt(q), s its sign and q a
\* rational, so that the square root of line 339 is held exactly.
ErrOf(e) == <<IF e > 0 THEN 1 ELSE IF e < 0 THEN -1 ELSE 0, R(e * e)>>

\* numpy.sqrt of a non-negative rational
Sqrt(q) == <<IF q[1] = 0 THEN 0 ELSE 1, q>>

\* The largest k in lo..hi with k * k <= n.
RECURSIVE IntRoot(_, _, _)
IntRoot(n, lo, hi) ==
    IF lo >= hi THEN lo
    ELSE LET mid == (lo + hi + 1) \div 2
         IN  IF mid * mid <= n THEN IntRoot(n, mid, hi)
             ELSE IntRoot(n, lo, mid - 1)

IsSquare(n) == IntRoot(n, 0, 46340) * IntRoot(n, 0, 46340) = n

\* errAmpFin.astype(errQuadData[amp].dtype) of one pixel: a rational root is
\* rounded to float32, an irrational one is kept as the exact root.
ErrAsType(e) ==
    LET q == e[2]
    IN  IF IsSquare(q[1]) /\ IsSquare(q[2])
        THEN LET f == Float32(<<IntRoot(q[1], 0, 46340), IntRoot(q[2], 0, 46340)>>)
             IN  <<e[1], RMul(f, f)>>
        ELSE e

\* errAmpFin of lines 337-339, cast as at line 340.
ErrAmpFin(errAmp, fin, orig) ==
    [r \in 1..NRows(errAmp) |-> [c \in 1..NCols(errAmp) |->
        LET dcte == RMul(Rat(1, 10), RAbs(RSub(fin[r][c], orig[r][c])))
        IN  ErrAsType(Sqrt(RAdd(errAmp[r][c][2], RMul(dcte, dcte))))]]

\* Offsets a kernel adds to the signal it is given, in DN.
KernelDeltas == {R(0), R(10)}

\* PixCte_FixY.FixYCte: <<retCode, sciAmpCor>>.  The kernel is a native
\* routine outside this file: it fills sciAmpCor, returns a status and
\* changes none of its other arguments.
FixYCte(sig) ==
    {<<0, ArrAddConst(sig, d)>> : d \in KernelDeltas}
        \cup {<<1, ArrAddConst(sig, R(10))>>}

\* Every quadrant takes the corrected data, whatever the status.
QuadOverwritten(old, rc, new) == new

\* A quadrant's SCI or ERR data after the kernel call: lines 326-328 skip
\* the assignments of lines 333 and 340.
QuadAfter(old, rc, new) == IF rc # 0 THEN old ELSE new

----------------------------------------------------------------------------
(* The exposures and calibration files of a CteCorr run. *)

\* Largest number of exposures of one CteCorr run.
MaxExposures == 2

Amps == {"A", "B", "C", "D"}

AmpSet(lst) == {lst[i] : i \in 1..Len(lst)}

\* Amplifier lists of an exposure.
AmpLists == {<<"A", "B", "C", "D">>, <<"B", "A">>, <<"D">>}

\* Gains by amplifier.
UnitGain == [a \in Amps |-> R(1)]
MixedGain == [a \in Amps |-> IF a = "C" THEN R(1) ELSE R(2)]

\* A quadrant of three rows and one column.
Column(a, b, c) == <<<<a>>, <<b>>, <<c>>>>

\* SCI quadrants in electrons.
SciImageInBand ==
    [a \in Amps |->
        CASE a = "A" -> Column(R(10), R(40), R(10))
          [] a = "B" -> Column(R(0), R(30), R(2))
          [] a = "C" -> Column(R(20), R(21), R(20))
          [] a = "D" -> Column(R(7), R(0), R(0))]
SciImageOutOfBand ==
    [a \in Amps |->
        CASE a = "A" -> Column(R(200), R(0), R(30))
          [] a = "B" -> Column(R(0), R(0), R(0))
          [] a = "C" -> Column(R(-30), R(5), R(-30))
          [] a = "D" -> Column(R(1), R(2), R(4))]

\* What an exposure holds: its gains and its SCI quadrants.
QuadrantFiles ==
    {[gain |-> UnitGain, sci |-> SciImageInBand],
     [gain |-> MixedGain, sci |-> SciImageOutOfBand]}

\* ERR quadrants.
ErrImage == [a \in Amps |-> Column(ErrOf(0), ErrOf(3), ErrOf(-4))]

\* EXPSTART of an exposure: before c1, between c1 and c2, at c2.
ExpStarts == {50950, 53720, 55105}

\* DETECTOR of an exposure.
Detectors == {"WFC", "HRC"}

\* What _PixCteParams returns from a calibration file.
PcteFiles ==
    {[dtde_l |-> [i \in 1..NumPhi |-> Rat(1, 4)],
      psi_node |-> <<1, 100>>,
      chg_leak |-> <<<<R(1), R(2), R(3), R(4)>>, <<R(4), R(2), R(0), R(1)>>>>,
      rn2_nit |-> 1],
     [dtde_l |-> [i \in 1..NumPhi |-> IF i = 1 THEN Rat(1, 4) ELSE R(1)],
      psi_node |-> <<1, 3, 100>>,
      chg_leak |-> <<<<R(1), R(2), R(3), R(4)>>, <<R(4), R(2), R(0), R(1)>>,
                     <<R(0), R(0), R(0), R(0)>>>>,
      rn2_nit |-> 2]}

\* Exceptions of _PixCteParams, "" when it returns.
PixCteParamsErrors == {"", "NameError", "UnboundLocalError"}

\* Noise models the documentation of CteCorr offers.
NoiseModels == {0, 1}

----------------------------------------------------------------------------
(* YCte and CteCorr *)

\* YCte up to the PSI table: the output file is opened (lines 228-231),
\* cte_frac computed (line 240), a KeyError for a detector _CalcCteFrac has
\* no constants for, and the calibration read (line 244), which
\* raises NameError when PCTEFILE is missing and UnboundLocalError when no
\* extension covers EXPSTART.
YCteBegin ==
    /\ pc = "CteCorr"
    /\ infiles > 0
    /\ \E mjd \in ExpStarts, det \in Detectors, f \in PcteFiles,
          err \in PixCteParamsErrors :
          IF det \notin SupportedDetectors \/ err # ""
          THEN /\ pc' = "raise"
               /\ raised' = IF det \notin SupportedDetectors THEN "KeyError"
                             ELSE err
               /\ UNCHANGED <<psiVars, phiVars, expstart, detector, rn2_nit,
                              qmaxAtCall>>
          ELSE /\ pc' = "_InterpolatePsi"
               /\ expstart' = mjd
               /\ detector' = det
               /\ cte_frac' = _CalcCteFrac(mjd, det)
               /\ dtde_l' = f.dtde_l
               /\ chg_leak' = f.chg_leak
               /\ psi_node' = f.psi_node
               /\ rn2_nit' = f.rn2_nit
               /\ qmaxAtCall' = _YCTE_QMAX
               /\ UNCHANGED <<raised, chg_leak_kt, dtde_q, ctde_q, q_pix_array,
                              pix_q_array>>
    /\ UNCHANGED <<infiles, inSci, inErr, ampList, gain, noise,
                   intermediateFiles, sciQuadData, errQuadData, ampIdx>>
    /\ UNCHANGED <<_YCTE_QMAX, trackVars, rnVars, ampVars>>

\* Lines 256-261: the amplifiers, gains and SCI and ERR quadrants of the
\* file are read.  The amp loop will start at the first entry of ampList.
DataByAmp ==
    /\ pc = "DataByAmp"
    /\ \E amps \in AmpLists, f \in QuadrantFiles :
          /\ ampList' = amps
          /\ gain' = [a \in AmpSet(amps) |-> f.gain[a]]
          /\ inSci' = [a \in AmpSet(amps) |-> f.sci[a]]
          /\ inErr' = [a \in AmpSet(amps) |-> ErrImage[a]]
          /\ sciQuadData' = [a \in AmpSet(amps) |-> f.sci[a]]
          /\ errQuadData' = [a \in AmpSet(amps) |-> ErrImage[a]]
    /\ ampIdx' = 1
    /\ pc' = "_TrackChargeTrap"
    /\ UNCHANGED <<raised, psiVars, phiVars, _YCTE_QMAX, trackVars, rnVars>>
    /\ UNCHANGED <<infiles, expstart, detector, noise, intermediateFiles,
                   rn2_nit, qmaxAtCall, ampVars>>

\* One pass of the amp loop (lines 296-341).
ProcessAmp ==
    /\ pc = "AmpLoop"
    /\ ampIdx <= Len(ampList)
    /\ LET amp == ampList[ampIdx]
           sciAmpOrig == sciQuadData[amp]
           dec == _DecomposeRN(sciAmpOrig, noise, rn2_nit, Rdns(amp))
           sig == ArrDiv(dec[1], gain[amp])
           outLog2 == IF amp = Amp2Log(ampList)
                      THEN OutLog(intermediateFiles) ELSE ""
       IN  \E out \in FixYCte(sig) :
              LET sciAmpFin == SciAmpFin(out[2], gain[amp], dec[2])
              IN  /\ sciAmpSig' = sig
                  /\ sciAmpNse' = dec[2]
                  /\ sciAmpCor' = out[2]
                  /\ retCode' = out[1]
                  /\ kernelCalls' = Append(kernelCalls,
                         [amp |-> amp, qmax |-> _YCTE_QMAX, log |-> outLog2])
                  /\ printed' = IF out[1] # 0 THEN Append(printed, amp)
                                ELSE printed
                  /\ sciQuadData' = [sciQuadData EXCEPT ![amp] =
                         QuadAfter(@, out[1], ArrAsType(sciAmpFin))]
                  /\ errQuadData' = [errQuadData EXCEPT ![amp] =
                         QuadAfter(@, out[1], ErrAmpFin(@, sciAmpFin, sciAmpOrig))]
    /\ ampIdx' = ampIdx + 1
    /\ UNCHANGED <<pc, raised, psiVars, phiVars, _YCTE_QMAX, trackVars, rnVars>>
    /\ UNCHANGED <<fileVars, ampList, gain, noise, intermediateFiles, rn2_nit,
                   qmaxAtCall>>

\* The amp loop is over: the file is closed (lines 344-352), the locals of
\* YCte are gone and CteCorr takes the next file.
YCteEnd ==
    /\ pc = "AmpLoop"
    /\ ampIdx > Len(ampList)
    /\ pc' = "CteCorr"
    /\ infiles' = infiles - 1
    /\ psi_node' = <<>> /\ chg_leak' = <<>> /\ chg_leak_kt' = <<>>
    /\ dtde_l' = <<>> /\ cte_frac' = Zero /\ dtde_q' = <<>> /\ ctde_q' = <<>>
    /\ q_pix_array' = <<>> /\ pix_q_array' = <<>>
    /\ chg_leak_tq' = <<>> /\ chg_open_tq' = <<>>
    /\ expstart' = 0 /\ detector' = ""
    /\ inSci' = <<>> /\ inErr' = <<>>
    /\ ampList' = <<>> /\ gain' = <<>> /\ rn2_nit' = 0 /\ qmaxAtCall' = 0
    /\ sciQuadData' = <<>> /\ errQuadData' = <<>> /\ ampIdx' = 0
    /\ sciAmpSig' = <<>> /\ sciAmpNse' = <<>> /\ sciAmpCor' = <<>>
    /\ retCode' = 0 /\ kernelCalls' = <<>> /\ printed' = <<>>
    /\ UNCHANGED <<raised, _YCTE_QMAX, rnVars, noise, intermediateFiles>>

\* The file loop of CteCorr is over (lines 133-134).
CteCorrReturn ==
    /\ pc = "CteCorr"
    /\ infiles = 0
    /\ pc' = "return"
    /\ UNCHANGED <<raised, psiVars, phiVars, _YCTE_QMAX, trackVars, rnVars,
                   fileVars, ycteVars, ampVars>>

----------------------------------------------------------------------------
(* Idle values of the variables a specification leaves alone. *)

RnIdle ==
    /\ data_e = <<>>
    /\ model = 0
    /\ nitrn = 0
    /\ readNoise = Zero
    /\ doNsCor = <<>>
    /\ nit = 0
    /\ sigArr = <<>>
    /\ nseArr = <<>>

TrackIdle == chg_leak_tq = <<>> /\ chg_open_tq = <<>>

\* No quadrant data is held.
QuadIdle ==
    /\ inSci = <<>>
    /\ inErr = <<>>
    /\ ampList = <<>>
    /\ gain = <<>>
    /\ noise = 0
    /\ intermediateFiles = FALSE
    /\ rn2_nit = 0
    /\ qmaxAtCall = 0
    /\ sciQuadData = <<>>
    /\ errQuadData = <<>>
    /\ ampIdx = 0
    /\ sciAmpSig = <<>>
    /\ sciAmpNse = <<>>
    /\ sciAmpCor = <<>>
    /\ retCode = 0
    /\ kernelCalls = <<>>
    /\ printed = <<>>

\* No exposure is open.
YCteIdle ==
    /\ infiles = 0
    /\ expstart = 0
    /\ detector = ""
    /\ QuadIdle

PsiIdle == psi_node = <<>> /\ chg_leak = <<>> /\ chg_leak_kt = <<>>

PhiIdle ==
    /\ dtde_l = <<>>
    /\ cte_frac = Zero
    /\ dtde_q = <<>>
    /\ ctde_q = <<>>
    /\ q_pix_array = <<>>
    /\ pix_q_array = <<>>

----------------------------------------------------------------------------
(* _InterpolatePsi on every calibration table within the bounds. *)

InitPsi ==
    /\ pc = "_InterpolatePsi"
    /\ raised = ""
    /\ YCteIdle
    /\ psi_node \in SeqsUpTo(PsiOffsets, MaxNodes)
    /\ chg_leak \in [1..Len(psi_node) -> LeakRows]
    /\ chg_leak_kt = <<>>
    /\ PhiIdle
    /\ _YCTE_QMAX = QMAX0
    /\ TrackIdle
    /\ RnIdle

NextPsi == InterpolatePsi

SpecPsi == InitPsi /\ [][NextPsi]_vars

\* _InterpolatePsi has returned a table.
PsiReturned == pc = "_InterpolatePhi"

\* At least two nodes, offsets strictly increasing, starting at 1, the last
\* one <= max_node.
PsiNodesOrdered ==
    /\ Len(psi_node) >= 2
    /\ psi_node[1] = 1
    /\ psi_node[Len(psi_node)] <= max_node
    /\ \A i \in 1..(Len(psi_node) - 1) : psi_node[i] < psi_node[i + 1]

\* C5: for every node (offset_i, values_i) of a calibration whose offsets are
\* strictly increasing from 1 with the last one <= 100, the dense table's
\* row for offset_i equals values_i in every column, the last node included
\* also when its offset is below 100.
C5_NodeRowsExact ==
    (PsiReturned /\ PsiNodesOrdered) =>
        \A i \in 1..Len(psi_node) : chg_leak_kt[psi_node[i]] = chg_leak[i]

\* The part of C5 the code keeps: every node but the last is reproduced, and
\* the last node's values are in row 100.
PsiInnerNodeRowsExact ==
    (PsiReturned /\ PsiNodesOrdered) =>
        /\ \A i \in 1..(Len(psi_node) - 1) :
              chg_leak_kt[psi_node[i]] = chg_leak[i]
        /\ chg_leak_kt[max_node] = chg_leak[Len(chg_leak)]

\* C16: for every calibration with strictly increasing offsets from 1 and
\* the last one <= 100, the table of _InterpolatePsi is the table of
\* _InterpolatePsi_NOT_USED in every row and column, the rows past the last
\* node included.
C16_SameAsReference ==
    (PsiReturned /\ PsiNodesOrdered) =>
        chg_leak_kt = _InterpolatePsi_NOT_USED(chg_leak, psi_node)

\* What the code keeps of C16: the two tables are the same when the last
\* node is at offset 100.
PsiSameAsReferenceToLastNode ==
    (PsiReturned /\ PsiNodesOrdered /\ psi_node[Len(psi_node)] = max_node) =>
        chg_leak_kt = _InterpolatePsi_NOT_USED(chg_leak, psi_node)

\* C6: every row for an offset above the last node's offset (up to 100)
\* equals the last node's values, and every row for an offset strictly
\* between two adjacent nodes is their linear interpolation with weight
\* (offset - offset_i) / (offset_{i+1} - offset_i).
C6_FlatTailAndLinear ==
    (PsiReturned /\ PsiNodesOrdered) =>
        /\ \A t \in 1..max_node :
              t > psi_node[Len(psi_node)] =>
                  chg_leak_kt[t] = chg_leak[Len(chg_leak)]
        /\ \A i \in 1..(Len(psi_node) - 1) :
              \A t \in 1..max_node :
                  (psi_node[i] < t /\ t < psi_node[i + 1]) =>
                      \A k \in 1..Len(chg_leak[i]) :
                          chg_leak_kt[t][k] =
                              RAdd(chg_leak[i][k],
                                   RMul(Rat(t - psi_node[i],
                                            psi_node[i + 1] - psi_node[i]),
                                        RSub(chg_leak[i + 1][k], chg_leak[i][k])))

\* Fewer than 2 nodes, or offsets not strictly increasing.
PsiMalformed ==
    \/ Len(psi_node) < 2
    \/ \E i \in 1..(Len(psi_node) - 1) : psi_node[i] >= psi_node[i + 1]

\* C7: building the table fails with MalformedCalibration, and returns no
\* table, whenever the node offsets are not strictly increasing or fewer than
\* 2 nodes are supplied.
C7_MalformedRejected ==
    (pc # "_InterpolatePsi" /\ PsiMalformed) =>
        (pc = "raise" /\ raised = "MalformedCalibration" /\ chg_leak_kt = <<>>)

----------------------------------------------------------------------------
(* _InterpolatePhi on every fill curve and time scalar within the bounds. *)

----------------------------------------------------------------------------
(* _CalcCteFrac on every epoch within the bounds. *)

\* EXPSTART runs from MaxEpoch tenths of c2 - c1 before c1 to as many
\* after c2.
MaxEpoch == 30

\* EXPSTART values, a tenth of c2 - c1 apart; c1 and c2 are among them.
EpochSet == {c1 + 277 * k : k \in (-MaxEpoch)..(10 + MaxEpoch)}

InitFrac ==
    /\ pc = "_CalcCteFrac"
    /\ raised = ""
    /\ PsiIdle
    /\ PhiIdle
    /\ _YCTE_QMAX = QMAX0
    /\ TrackIdle
    /\ RnIdle
    /\ infiles = 0
    /\ expstart \in EpochSet
    /\ detector \in Detectors
    /\ QuadIdle

NextFrac == CalcCteFrac

SpecFrac == InitFrac /\ [][NextFrac]_vars

\* _CalcCteFrac has returned the time scalar.
FracReturned == pc = "return" /\ detector \in SupportedDetectors /\ infiles = 0

\* C14: for a supported detector the time scalar is
\* (mjd - C1) / (C2 - C1): 0 at mjd = C1, 1 at mjd = C2, below 0 before C1
\* and above 1 after C2.
C14_TimeScalarLinearUnclipped ==
    FracReturned =>
        /\ RMul(cte_frac, R(55105 - 52335)) = R(expstart - 52335)
        /\ expstart = 52335 => cte_frac = Zero
        /\ expstart = 55105 => cte_frac = One
        /\ expstart < 52335 => RLt(cte_frac, Zero)
        /\ expstart > 55105 => RLt(One, cte_frac)

\* The scalar has been returned for an epoch after C2.
C14_Witness == FracReturned /\ expstart > 55105 /\ RLt(One, cte_frac)

\* PHI node values.
PhiVals == {R(0), Rat(1, 4), R(1)}

InitPhi ==
    /\ pc = "_InterpolatePhi"
    /\ raised = ""
    /\ YCteIdle
    /\ PsiIdle
    /\ dtde_l \in [1..NumPhi -> PhiVals] \cup [1..(NumPhi - 1) -> PhiVals]
    /\ cte_frac \in {_CalcCteFrac(mjd, "WFC") : mjd \in MjdSet}
    /\ dtde_q = <<>>
    /\ ctde_q = <<>>
    /\ q_pix_array = <<>>
    /\ pix_q_array = <<>>
    /\ _YCTE_QMAX = QMAX0
    /\ TrackIdle
    /\ RnIdle

NextPhi == InterpolatePhi

SpecPhi == InitPhi /\ [][NextPhi]_vars

\* _InterpolatePhi has returned.
PhiReturned == pc = "DataByAmp"

NonDecreasingR(s) == \A p \in 1..(Len(s) - 1) : RLe(s[p], s[p + 1])
NonDecreasing(s) == \A p \in 1..(Len(s) - 1) : s[p] <= s[p + 1]
MaxOf(s) == CHOOSE m \in {s[p] : p \in 1..Len(s)} : \A p \in 1..Len(s) : s[p] <= m

\* C8 as stated: for every fill curve and every time scalar _InterpolatePhi
\* accepts, negative ones included, the running sum is non-decreasing in p,
\* q_pix_array is non-decreasing in p and every q_pix_array entry is >= 1.
C8_RunningSumMonotoneAnyScalar ==
    PhiReturned =>
        /\ NonDecreasingR(ctde_q)
        /\ NonDecreasing(q_pix_array)
        /\ \A p \in 1..Len(q_pix_array) : q_pix_array[p] >= 1

\* C8 amended: for non-negative PHI node values, q_pix_array is
\* non-decreasing in p with every entry >= 1 for every time scalar; the
\* running sum is non-decreasing in p when the scalar is >= 0 and
\* non-increasing when it is negative.
C8_MonotoneForNonNegativeScalar ==
    PhiReturned =>
        /\ NonDecreasing(q_pix_array)
        /\ \A p \in 1..Len(q_pix_array) : q_pix_array[p] >= 1
        /\ RLe(Zero, cte_frac) => NonDecreasingR(ctde_q)
        /\ RLt(cte_frac, Zero) =>
              \A p \in 1..(Len(ctde_q) - 1) : RLe(ctde_q[p + 1], ctde_q[p])

\* A positive scalar, a running sum that grows and a mapping that leaves 1.
C8_Witness ==
    /\ PhiReturned
    /\ RLt(Zero, cte_frac)
    /\ RLt(ctde_q[1], ctde_q[p_max])
    /\ q_pix_array[1] = 1
    /\ q_pix_array[p_max] >= 3

----------------------------------------------------------------------------
(* _TrackChargeTrap on dense PSI tables built by _InterpolatePsi and on    *)
(* every trap-count -> charge-level mapping within the bounds.             *)

\* Largest number of trap-count columns.
MaxQ == 2

\* Charge levels a trap count may map to; 0 is an unset entry.
PixLevels == {0, 50, 300, 49999}

\* PSI node offsets of the tables handed to _TrackChargeTrap.
TrackNodes == {<<1, 100>>, <<1, 3>>}

\* The set entries of a mapping grow with the trap count.
SetEntriesIncrease(pq) ==
    \A a, b \in 1..Len(pq) : (a < b /\ pq[a] # 0 /\ pq[b] # 0) => pq[a] < pq[b]

InitTrack ==
    /\ pc = "_TrackChargeTrap"
    /\ raised = ""
    /\ YCteIdle
    /\ psi_node \in TrackNodes
    /\ chg_leak \in [1..Len(psi_node) -> LeakRows]
    /\ chg_leak_kt = _InterpolatePsi(chg_leak, psi_node)
    /\ dtde_l = <<>>
    /\ cte_frac = Zero
    /\ dtde_q = <<>>
    /\ ctde_q = <<>>
    /\ q_pix_array = <<>>
    /\ pix_q_array \in {pq \in [1..MaxQ -> PixLevels] : SetEntriesIncrease(pq)}
    /\ _YCTE_QMAX \in (-1)..MaxQ
    /\ TrackIdle
    /\ RnIdle

NextTrack == TrackChargeTrap

SpecTrack == InitTrack /\ [][NextTrack]_vars

\* _TrackChargeTrap has returned its two tables.
TrackReturned == pc = "AmpLoop"

\* C10: for every trap-count column q in 1..QMAX of the returned tables,
\* columns of unset pix_q_array entries included, the leak column sums to 1
\* over all offsets, and the open column is the running sum of the leak
\* column, is non-decreasing along the offset axis and is 1 in its last row.
C10_ColumnsNormalised ==
    TrackReturned =>
        \A q \in 1.._YCTE_QMAX :
            /\ SumSeq(chg_leak_tq[q], max_node) = One
            /\ \A t \in 1..max_node :
                  chg_open_tq[q][t] = SumSeq(chg_leak_tq[q], t)
            /\ \A t \in 1..(max_node - 1) :
                  /\ IsFinite(chg_open_tq[q][t])
                  /\ IsFinite(chg_open_tq[q][t + 1])
                  /\ RLe(chg_open_tq[q][t], chg_open_tq[q][t + 1])
            /\ chg_open_tq[q][max_node] = One

\* What the code keeps of C10: the same, for every column whose entries
\* before normalisation do not sum to 0.
TrackNonDegenerateColumnsNormalised ==
    TrackReturned =>
        \A q \in 1.._YCTE_QMAX :
            IsFinite(chg_leak_tq[q][1]) =>
                /\ SumSeq(chg_leak_tq[q], max_node) = One
                /\ \A t \in 1..(max_node - 1) :
                      RLe(chg_open_tq[q][t], chg_open_tq[q][t + 1])
                /\ chg_open_tq[q][max_node] = One

\* The sum over all offsets of column q before it is normalised.
ColumnSum(q) == SumSeq(LeakColumn(chg_leak_kt, pix_q_array[q]), max_node)

\* C11: _TrackChargeTrap never returns tables in which a column was
\* normalised by a sum that is zero or negative: with such a column the call
\* ends in an error and the amp loop is not reached.
C11_DegenerateColumnFails ==
    TrackReturned => \A q \in 1.._YCTE_QMAX : RLt(Zero, ColumnSum(q))

----------------------------------------------------------------------------
(* _DecomposeRN on every array, model and parameter within the bounds.     *)
(* Every statement of the function works on each column by itself, so the  *)
(* arrays have one column.                                                 *)

\* Largest number of rows of an input array.
MaxRows == 6

\* Largest iteration count of model 1.
MaxNit == 2

\* Pixel values in electrons: below the band of model 1, two inside, above.
ElectronVals == {R(-30), R(0), R(30), R(200)}

\* Read noise values of model 100.
ReadNoiseVals == {R(0), R(5)}

InitRN ==
    /\ pc = "_DecomposeRN"
    /\ raised = ""
    /\ YCteIdle
    /\ PsiIdle
    /\ PhiIdle
    /\ _YCTE_QMAX = QMAX0
    /\ TrackIdle
    /\ \E n \in 1..MaxRows : data_e \in [1..n -> [1..1 -> ElectronVals]]
    /\ \/ model = 0 /\ nitrn = 0 /\ readNoise = Zero
       \/ model = 1 /\ nitrn \in 0..MaxNit /\ readNoise = Zero
       \/ model = 100 /\ nitrn = 0 /\ readNoise \in ReadNoiseVals
    /\ doNsCor = <<>>
    /\ nit = 0
    /\ sigArr = <<>>
    /\ nseArr = <<>>

NextRN == DecomposeBegin \/ DecomposeIterate \/ DecomposeEnd

SpecRN == InitRN /\ [][NextRN]_vars

\* _DecomposeRN has returned sigArr and nseArr.
RnReturned == pc = "DecomposeReturn"

SameShape(a, b) ==
    /\ NRows(a) = NRows(b)
    /\ \A r \in 1..NRows(a) : Len(a[r]) = Len(b[r])

\* C1: for each of the models 0, 1 and 100 and every input array, the two
\* returned arrays have the input's shape and signal + noise equals the
\* original at every pixel.
C1_SignalPlusNoiseIsOriginal ==
    RnReturned =>
        /\ SameShape(sigArr, data_e)
        /\ SameShape(nseArr, data_e)
        /\ \A r \in 1..NRows(data_e) : \A c \in 1..NCols(data_e) :
              RAdd(sigArr[r][c], nseArr[r][c]) = data_e[r][c]

\* Model 100 has returned with a residual between the two thresholds, which
\* it tapered: the noise is neither 0 nor the whole residual.
C1_Witness ==
    /\ RnReturned
    /\ model = 100
    /\ \E r \in 1..NRows(data_e) :
          /\ nseArr[r][1] # Zero
          /\ nseArr[r][1] # RSub(data_e[r][1], Rn100InitialSignal(data_e)[r][1])

OutOfBand(x) == RLt(x, R(nseLo)) \/ RLt(R(nseHi), x)

Untouched(r, c) == sigArr[r][c] = data_e[r][c] /\ nseArr[r][c] = Zero

\* C3: in model 1, for every pixel whose original value lies outside
\* [-20, 100], in any row, the first and the last included, that pixel, the
\* pixel above it and the pixel below it are unchanged: signal equals the
\* original and noise is 0 at all three.
C3_OutOfBandAndNeighboursUntouched ==
    (RnReturned /\ model = 1) =>
        \A r \in 1..NRows(data_e) : \A c \in 1..NCols(data_e) :
            OutOfBand(data_e[r][c]) =>
                \A r2 \in {r - 1, r, r + 1} \cap (1..NRows(data_e)) :
                    Untouched(r2, c)

\* What the code keeps of C3: the same for the out-of-band pixels of the
\* rows between the first and the last.
RnInteriorOutOfBandUntouched ==
    (RnReturned /\ model = 1) =>
        \A r \in 2..(NRows(data_e) - 1) : \A c \in 1..NCols(data_e) :
            OutOfBand(data_e[r][c]) =>
                \A r2 \in {r - 1, r, r + 1} : Untouched(r2, c)

\* C4: in model 1 an iteration count of 0 returns signal = original and
\* noise = 0 everywhere, and for every iteration count the first and the
\* last row of the signal are the original's, with noise 0 there.
C4_ZeroIterationsAndBoundaryRows ==
    (RnReturned /\ model = 1) =>
        /\ nitrn = 0 =>
              \A r \in 1..NRows(data_e) : \A c \in 1..NCols(data_e) :
                  Untouched(r, c)
        /\ \A c \in 1..NCols(data_e) :
              Untouched(1, c) /\ Untouched(NRows(data_e), c)

\* Model 1 has run at least one iteration and changed a pixel next to each
\* boundary row.
C4_Witness ==
    /\ RnReturned
    /\ model = 1
    /\ nitrn >= 1
    /\ NRows(data_e) >= 4
    /\ ~Untouched(2, 1)
    /\ ~Untouched(NRows(data_e) - 1, 1)

----------------------------------------------------------------------------
(* CteCorr over a list of exposures. *)

\* CteCorr is called with its file list, noise model and intermediateFiles.
Init ==
    /\ pc = "CteCorr"
    /\ raised = ""
    /\ PsiIdle
    /\ PhiIdle
    /\ _YCTE_QMAX = QMAX0
    /\ TrackIdle
    /\ RnIdle
    /\ infiles \in 0..MaxExposures
    /\ expstart = 0
    /\ detector = ""
    /\ inSci = <<>>
    /\ inErr = <<>>
    /\ ampList = <<>>
    /\ gain = <<>>
    /\ noise \in NoiseModels
    /\ intermediateFiles \in BOOLEAN
    /\ rn2_nit = 0
    /\ qmaxAtCall = 0
    /\ sciQuadData = <<>>
    /\ errQuadData = <<>>
    /\ ampIdx = 0
    /\ sciAmpSig = <<>>
    /\ sciAmpNse = <<>>
    /\ sciAmpCor = <<>>
    /\ retCode = 0
    /\ kernelCalls = <<>>
    /\ printed = <<>>

Next ==
    \/ YCteBegin
    \/ InterpolatePsi
    \/ InterpolatePhi
    \/ DataByAmp
    \/ TrackChargeTrap
    \/ ProcessAmp
    \/ YCteEnd
    \/ CteCorrReturn

Spec == Init /\ [][Next]_vars

\* The amp loop of an exposure has ended.
AmpLoopOver == pc = "AmpLoop" /\ ampIdx > Len(ampList)

\* C2: in the amp loop, a kernel call that returns a non-zero status is
\* reported, leaves the SCI and ERR data of its quadrant as they were and is
\* followed by the next quadrant; a call that returns 0 has its quadrant's
\* SCI data overwritten with sciAmpCor * gain + sciAmpNse; and when the loop
\* ends the kernel has been called for every amplifier of ampList in turn.
C2_FailedQuadrantPassedThrough ==
    /\ [][(pc = "AmpLoop" /\ ampIdx <= Len(ampList)) =>
            LET amp == ampList[ampIdx]
            IN  /\ pc' = "AmpLoop"
                /\ ampIdx' = ampIdx + 1
                /\ kernelCalls'[Len(kernelCalls')].amp = amp
                /\ retCode' # 0 =>
                      /\ sciQuadData'[amp] = sciQuadData[amp]
                      /\ errQuadData'[amp] = errQuadData[amp]
                      /\ printed' = Append(printed, amp)
                /\ retCode' = 0 =>
                      /\ sciQuadData'[amp] =
                            [r \in 1..3 |-> <<RAdd(RMul(sciAmpCor'[r][1], gain[amp]),
                                                   sciAmpNse'[r][1])>>]
                      /\ printed' = printed
                /\ \A o \in AmpSet(ampList) \ {amp} :
                      /\ sciQuadData'[o] = sciQuadData[o]
                      /\ errQuadData'[o] = errQuadData[o]]_vars
    /\ [](AmpLoopOver =>
            /\ Len(kernelCalls) = Len(ampList)
            /\ \A i \in 1..Len(ampList) : kernelCalls[i].amp = ampList[i])

\* One quadrant among four has failed: it holds the data of the input file
\* and the other three do not.
C2_Witness ==
    /\ AmpLoopOver
    /\ Len(ampList) = 4
    /\ printed = <<"B">>
    /\ sciQuadData["B"] = inSci["B"]
    /\ errQuadData["B"] = inErr["B"]
    /\ \A o \in {"A", "C", "D"} :
          sciQuadData[o] # inSci[o] /\ errQuadData[o] # inErr[o]

\* The amplifier of the kernel call made last.
LastAmp == ampList[ampIdx - 1]

\* C12: a pass of the amp loop for a quadrant of gain 1 in which the kernel
\* returns status 0 and a corrected array equal to the signal it was given
\* leaves every SCI pixel of the quadrant at its value before the pass, and
\* every ERR pixel that is not negative at its value too.
C12_IdentityKernelChangesNothing ==
    [][(/\ pc = "AmpLoop"
        /\ ampIdx <= Len(ampList)
        /\ gain[ampList[ampIdx]] = One
        /\ retCode' = 0
        /\ sciAmpCor' = sciAmpSig') =>
            LET amp == ampList[ampIdx]
            IN  /\ sciQuadData'[amp] = sciQuadData[amp]
                /\ \A r \in 1..NRows(errQuadData[amp]) :
                      errQuadData[amp][r][1][1] >= 0 =>
                          errQuadData'[amp][r][1] = errQuadData[amp][r][1]]_vars

\* Such a pass has happened on a quadrant with noise taken out of its signal
\* and an ERR pixel above 0.
C12_Witness ==
    /\ pc = "AmpLoop"
    /\ ampIdx > 1
    /\ gain[LastAmp] = One
    /\ retCode = 0
    /\ sciAmpCor = sciAmpSig
    /\ \E r \in 1..NRows(sciAmpNse) : sciAmpNse[r][1] # Zero
    /\ sciQuadData[LastAmp] = inSci[LastAmp]
    /\ \E r \in 1..NRows(errQuadData[LastAmp]) :
          /\ errQuadData[LastAmp][r][1][1] > 0
          /\ errQuadData[LastAmp][r][1] = inErr[LastAmp][r][1]

\* Place of an amplifier in the order C, D, A, B.
PriorityRank(a) ==
    CASE a = "C" -> 1 [] a = "D" -> 2 [] a = "A" -> 3 [] a = "B" -> 4

\* Kernel calls of this exposure that were given a log path.
LoggedCalls == {i \in 1..Len(kernelCalls) : kernelCalls[i].log # ""}

\* C13: at most one kernel call of an exposure is given a log path; a call
\* is given one only when intermediate files are asked for and its
\* amplifier comes before every other amplifier of ampList in the order
\* C, D, A, B, wherever it stands in ampList; and when the amp loop of an
\* exposure with intermediate files ends, one call has been given it.
C13_OneLoggedQuadrantByPriority ==
    /\ Cardinality(LoggedCalls) <= 1
    /\ \A i \in LoggedCalls :
          /\ intermediateFiles
          /\ \A o \in AmpSet(ampList) :
                PriorityRank(kernelCalls[i].amp) <= PriorityRank(o)
    /\ (AmpLoopOver /\ intermediateFiles /\ Len(ampList) > 0) =>
          Cardinality(LoggedCalls) = 1
    /\ ~intermediateFiles => LoggedCalls = {}

\* The logged quadrant is not the one the loop came to first.
C13_Witness ==
    /\ AmpLoopOver
    /\ intermediateFiles
    /\ Len(ampList) = 4
    /\ LoggedCalls = {3}
    /\ kernelCalls[3].amp = "C"

\* QMAX of the exposure being corrected: the truncated total of its fill
\* curve dtde_l at every charge level, scaled by its time scalar cte_frac.
ExposureQmax == Trunc(SumSeq(DtdeQ(dtde_l, cte_frac), p_max))

\* C15: in every exposure of a CteCorr run, when _InterpolatePhi has
\* returned, _YCTE_QMAX is the QMAX of that exposure's fill curve and time
\* scalar, whatever value it had when YCte was called; from there to the end
\* of the amp loop the value, the fill curve and the time scalar stay as
\* they are; the tables of _TrackChargeTrap have that many columns and
\* every kernel call is given that value; and a pass of the amp loop
\* changes none of the tables.
C15_QmaxIsOfThisExposure ==
    /\ [](pc = "DataByAmp" => _YCTE_QMAX = ExposureQmax)
    /\ [][(pc \in {"DataByAmp", "_TrackChargeTrap", "AmpLoop"}
            /\ pc' \in {"_TrackChargeTrap", "AmpLoop"}) =>
            UNCHANGED <<_YCTE_QMAX, dtde_l, cte_frac>>]_vars
    /\ [](pc = "AmpLoop" =>
            /\ Len(chg_leak_tq) = _YCTE_QMAX
            /\ Len(chg_open_tq) = _YCTE_QMAX
            /\ \A i \in 1..Len(kernelCalls) :
                  kernelCalls[i].qmax = _YCTE_QMAX)
    /\ [][(pc = "AmpLoop" /\ pc' = "AmpLoop") =>
            UNCHANGED <<chg_leak_kt, q_pix_array, pix_q_array,
                        chg_leak_tq, chg_open_tq>>]_vars

\* A kernel call of a later exposure: _YCTE_QMAX held another exposure's
\* value when YCte was called.
C15_Witness ==
    /\ pc = "AmpLoop"
    /\ Len(kernelCalls) > 0
    /\ qmaxAtCall # QMAX0
    /\ qmaxAtCall # _YCTE_QMAX
    /\ _YCTE_QMAX > 0
    /\ kernelCalls[1].qmax = _YCTE_QMAX
    /\ Len(chg_leak_tq) = _YCTE_QMAX
    /\ _YCTE_QMAX = ExposureQmax

\* The residual of pixel (r, c) against the mean of its two row neighbours,
\* cut to [-1, 1].
ClippedResidual(sig, r, c) ==
    LET res == RSub(sig[r][c],
                    RMul(Rat(1, 2), RAdd(sig[r - 1][c], sig[r + 1][c])))
    IN  IF RLt(One, res) THEN One ELSE IF RLt(res, R(-1)) THEN R(-1) ELSE res

\* C17: every iteration of model 1 changes every pixel of the signal by at
\* most 1 electron, a changed pixel by its residual against its neighbours
\* as they were before the iteration, cut to [-1, 1]; and the noise returned
\* after N iterations is at most N in absolute value at every pixel.
C17_OneElectronPerIteration ==
    /\ [][(pc = "nit_loop" /\ nit' = nit + 1) =>
            \A r \in 1..NRows(sigArr) : \A c \in 1..NCols(sigArr) :
                /\ RLe(RAbs(RSub(sigArr'[r][c], sigArr[r][c])), One)
                /\ sigArr'[r][c] # sigArr[r][c] =>
                      /\ 1 < r /\ r < NRows(sigArr)
                      /\ sigArr'[r][c] =
                            RSub(sigArr[r][c], ClippedResidual(sigArr, r, c))]_vars
    /\ []((pc = "DecomposeReturn" /\ model = 1) =>
            \A r \in 1..NRows(nseArr) : \A c \in 1..NCols(nseArr) :
                RLe(RAbs(nseArr[r][c]), R(nitrn)))

\* The bound is met: after two iterations a pixel has a noise of 2.
C17_Witness ==
    /\ pc = "DecomposeReturn"
    /\ model = 1
    /\ nitrn = 2
    /\ \E r \in 1..NRows(nseArr) : RAbs(nseArr[r][1]) = R(2)

====
